---- MODULE Spec2Model ----
(***************************************************************************)
(* A model of filling.c (the Fillomino puzzle of sgtpuzzles): the board    *)
(* generator make_board, the deduction-only solver, the clue-set builder   *)
(* new_game_desc, the description validator and the move executor.         *)
(*                                                                         *)
(* Cells are numbered 0 .. w*h-1 in row-major order as in the C source;    *)
(* arrays are functions over 0 .. sz-1, characters are their ASCII codes.  *)
(***************************************************************************)
EXTENDS Integers, Sequences, FiniteSets, TLC

VARIABLES
    w, h,            \* game_params
    policy,          \* which root a dsf_merge keeps (dsf.c is not in src/)
    pc,              \* position of the running operation
    board,           \* make_board / new_game_desc: int *board
    dsf,             \* make_board: int *dsf
    randomize,       \* new_game_desc: int *randomize
    solver_board,    \* new_game_desc: int *solver_board
    ni,              \* new_game_desc: loop index i of the blanking loop
    game_description, \* new_game_desc: the returned string
    desc,            \* validate_desc / new_game: char *desc
    verdict,         \* validate_desc: the returned message, "NULL" for NULL
    games,           \* the game_state objects, by address 1 .. MaxGames
    shared,          \* the struct shared_state all of them point to
    move,            \* execute_move: char *move of the last call
    from,            \* execute_move: the address of the state of the last call
    ret,             \* execute_move: the returned address, 0 for NULL
    nmoves,          \* number of execute_move calls made
    orig,            \* solver: const int *orig
    sv,              \* solver: its locals board, dsf, connected, nempty, learn
    si,              \* solver: loop index i of the pass under way
    passes           \* solver: number of passes of the do-loop started

genVars == <<board, dsf, randomize, solver_board, ni, game_description>>
descVars == <<desc, verdict>>
gameVars == <<games, shared, move, from, ret, nmoves>>
solveVars == <<orig, sv, si, passes>>
vars == <<w, h, policy, pc, genVars, descVars, gameVars, solveVars>>

----------------------------------------------------------------------------
(* Bounds of the model. *)

\* boards are generated for the grids of up to MaxSide columns and rows and up to
\* MaxCells cells
MaxSide == 3
MaxCells == 6

\* the solver is also run on the boards of the strips of StripLen cells
StripLen == 5

\* descriptions of up to MaxDescLen characters are validated, for grids of up to
\* MaxDescCells cells
MaxDescLen == 5
MaxDescCells == 4

\* at most MaxGames game states are allocated, and MaxMoves moves are executed
MaxGames == 3
MaxMoves == 2

----------------------------------------------------------------------------
(* Program constants. *)

EMPTY == 0

\* '0'
Ch0 == 48

\* the conversion of an int to char, a signed type of 8 bits in the build
to_char(v) == ((v + 128) % 256) - 128

Min2(a, b) == IF a < b THEN a ELSE b
Max2(a, b) == IF a > b THEN a ELSE b

Cells(sz) == 0 .. (sz - 1)

\* the array with the contents f: the same function, held as its table of values
Array(f) == f @@ <<>>

\* static const int dx[4], dy[4]; k ranges over 0..3 as in the C loops
dx(k) == <<-1, 1, 0, 0>>[k + 1]
dy(k) == <<0, 0, -1, 1>>[k + 1]

\* the bounds test "x < 0 || x >= w || y < 0 || y >= h" of every neighbour loop
OffGrid(gw, gh, i, k) ==
    LET x == (i % gw) + dx(k)
        y == (i \div gw) + dy(k)
    IN  x < 0 \/ x >= gw \/ y < 0 \/ y >= gh

\* idx = w*y + x for the k-th neighbour of i
Nbr(gw, gh, i, k) == gw * ((i \div gw) + dy(k)) + ((i % gw) + dx(k))

\* const int maxsize = min(max(max(w, h), 3), 9);
maxsize(gw, gh) == Min2(Max2(Max2(gw, gh), 3), 9)

----------------------------------------------------------------------------
(* The disjoint-set forest (dsf.c).  A dsf is the function cell -> canonical *)
(* element; path compression is not observable and is left out.            *)

Policies == {"min", "size"}

\* snew_dsf / dsf_init: every element is its own singleton class
dsf_init(sz) == Array([x \in Cells(sz) |-> x])

dsf_canonify(d, x) == d[x]

dsf_size(d, x) == Cardinality({y \in DOMAIN d : d[y] = d[x]})

\* the root that survives a merge of the distinct roots v1, v2
dsf_root(pol, d, v1, v2) ==
    IF pol = "min" THEN Min2(v1, v2)
    ELSE IF dsf_size(d, v2) > dsf_size(d, v1) THEN v2 ELSE v1

dsf_merge(pol, d, a, b) ==
    LET v1 == dsf_canonify(d, a)
        v2 == dsf_canonify(d, b)
        r  == dsf_root(pol, d, v1, v2)
    IN  IF v1 = v2 THEN d
        ELSE Array([y \in DOMAIN d |-> IF d[y] = v1 \/ d[y] = v2 THEN r ELSE d[y]])

----------------------------------------------------------------------------
(* validate_board: scan the cells in the order sq[0], sq[1], ... and report *)
(* a conflicting pair a, b and another neighbouring set c.                  *)

\* the element of a singleton set; TLC evaluates e once to build {e}, so
\* Only({f(x) : x \in {e}}) is f(e) with e computed once
Only(S) == CHOOSE x \in S : TRUE

\* F applied to the value of v, computed once: "x = v; ... F(x)"
Bind(v, F(_)) == Only({F(x) : x \in {v}})

\* vb_nbr with the size test reversed: a conflict is a smaller set beside a bigger
vb_nbr_smaller(d, gw, gh, aa, bb, st) ==
    IF aa = bb THEN st
    ELSE IF dsf_size(d, aa) < dsf_size(d, bb)
         THEN [st EXCEPT !.a = aa, !.b = bb, !.c = st.cc]
    ELSE IF st.cc = gw * gh
         THEN [st EXCEPT !.c = bb, !.cc = bb]
    ELSE st

\* one turn of the loop over j: the neighbour of cell in direction j
vb_nbr(d, gw, gh, aa, bb, st) ==
    IF aa = bb THEN st
    ELSE IF dsf_size(d, aa) = dsf_size(d, bb)
         THEN [st EXCEPT !.a = aa, !.b = bb, !.c = st.cc]
    ELSE IF st.cc = gw * gh
         THEN [st EXCEPT !.c = bb, !.cc = bb]
    ELSE st

RECURSIVE vb_nbrs(_, _, _, _, _, _, _)
\* the loop over j for one cell; st = [a, b, c, cc]
vb_nbrs(d, gw, gh, cell, aa, j, st) ==
    IF j = 4 THEN st
    ELSE IF OffGrid(gw, gh, cell, j) THEN vb_nbrs(d, gw, gh, cell, aa, j + 1, st)
    ELSE Only({vb_nbrs(d, gw, gh, cell, aa, j + 1, st2) :
               st2 \in {vb_nbr(d, gw, gh, aa, dsf_canonify(d, Nbr(gw, gh, cell, j)), st)}})

RECURSIVE vb_cells(_, _, _, _, _, _)
\* the loop "for (i = 0; i < sz && *a == sz; ++i)"
vb_cells(d, gw, gh, sq, i, st) ==
    IF i >= gw * gh \/ st.a # gw * gh THEN st
    ELSE Only({vb_cells(d, gw, gh, sq, i + 1, st1) :
               st1 \in {vb_nbrs(d, gw, gh, sq[i], dsf_canonify(d, sq[i]), 0,
                                [st EXCEPT !.cc = gw * gh])}})

validate_board(d, gw, gh, sq) ==
    LET sz == gw * gh
    IN  vb_cells(d, gw, gh, sq, 0, [a |-> sz, b |-> sz, c |-> sz, cc |-> sz])

----------------------------------------------------------------------------
(* make_board *)

RECURSIVE Perms(_)
\* every arrangement of the elements of S, as a tuple
Perms(S) ==
    IF S = {} THEN {<<>>}
    ELSE UNION {{<<x>> \o p : p \in Perms(S \ {x})} : x \in S}

\* shuffle(board, sz, ...): any arrangement of the current contents
shuffle(b, sz) ==
    {Array([i \in Cells(sz) |-> b[p[i + 1]]]) : p \in Perms(Cells(sz))}

\* repair that always joins the two conflicting sets: "dsf_merge(dsf, a, b)"
repair_joins_b(pol, d, sz, v) ==
    dsf_merge(pol, d, dsf_canonify(d, v.a), v.b)

\* the repair of one conflict: "a = dsf_canonify(dsf, a); dsf_merge(dsf, a, c == sz ? b : c)"
repair(pol, d, sz, v) ==
    dsf_merge(pol, d, dsf_canonify(d, v.a), IF v.c = sz THEN v.b ELSE v.c)

\* "if (dsf_size(dsf, a) > maxsize) break;"
\* too_big that lets a set grow one past maxsize
too_big_by_two(d, gw, gh, a) == dsf_size(d, a) > maxsize(gw, gh) + 1

\* too_big that breaks as soon as a set reaches maxsize
too_big_at_maxsize(d, gw, gh, a) == dsf_size(d, a) >= maxsize(gw, gh)

too_big(d, gw, gh, a) == dsf_size(d, a) > maxsize(gw, gh)

NoArray == <<>>

\* no call of solver is under way
SolveIdle == orig = NoArray /\ sv = NoArray /\ si = 0 /\ passes = 0

\* shuffle(board, sz, sizeof (int), rs) at the top of the outer loop
MB_Shuffle ==
    /\ pc = "mb_shuffle"
    /\ board' \in shuffle(board, w * h)
    /\ pc' = "mb_repair"
    /\ UNCHANGED <<descVars, gameVars, solveVars>>
    /\ UNCHANGED <<w, h, policy, dsf, randomize, solver_board, ni, game_description>>

\* one turn of the inner loop that merges and goes round again
MB_Repair ==
    /\ pc = "mb_repair"
    /\ \E v \in {validate_board(dsf, w, h, board)} :
       /\ v.a # w * h
       /\ \E d2 \in {repair(policy, dsf, w * h, v)} :
           /\ ~too_big(d2, w, h, dsf_canonify(dsf, v.a))
           /\ dsf' = d2
    /\ UNCHANGED <<descVars, gameVars, solveVars>>
    /\ UNCHANGED <<w, h, policy, pc, board, randomize, solver_board, ni, game_description>>

\* one turn of the inner loop that merges, breaks, and re-inits the dsf
MB_Abandon ==
    /\ pc = "mb_repair"
    /\ \E v \in {validate_board(dsf, w, h, board)} :
       /\ v.a # w * h
       /\ \E d2 \in {repair(policy, dsf, w * h, v)} :
           /\ too_big(d2, w, h, dsf_canonify(dsf, v.a))
           /\ dsf' = dsf_init(w * h)
    /\ pc' = "mb_shuffle"
    /\ UNCHANGED <<descVars, gameVars, solveVars>>
    /\ UNCHANGED <<w, h, policy, board, randomize, solver_board, ni, game_description>>

\* MB_Fill that looks the size up at the shuffled index: "board[i] = dsf_size(dsf, board[i])"
MB_Fill_shuffled ==
    /\ pc = "mb_repair"
    /\ validate_board(dsf, w, h, board).a = w * h
    /\ board' = Array([i \in Cells(w * h) |-> dsf_size(dsf, board[i])])
    /\ pc' = "mb_filled"
    /\ UNCHANGED <<descVars, gameVars, solveVars>>
    /\ UNCHANGED <<w, h, policy, dsf, randomize, solver_board, ni, game_description>>

\* the scan found no conflict: "for (i = 0; i < sz; ++i) board[i] = dsf_size(dsf, i)"
MB_Fill ==
    /\ pc = "mb_repair"
    /\ validate_board(dsf, w, h, board).a = w * h
    /\ board' = Array([i \in Cells(w * h) |-> dsf_size(dsf, i)])
    /\ pc' = "mb_filled"
    /\ UNCHANGED <<descVars, gameVars, solveVars>>
    /\ UNCHANGED <<w, h, policy, dsf, randomize, solver_board, ni, game_description>>

\* "sfree(dsf); return;"
MB_Return ==
    /\ pc = "mb_filled"
    /\ dsf' = NoArray
    /\ pc' = "mb_return"
    /\ UNCHANGED <<descVars, gameVars, solveVars>>
    /\ UNCHANGED <<w, h, policy, board, randomize, solver_board, ni, game_description>>

----------------------------------------------------------------------------
(* The solver's helpers: merge, expand, flood, count, expandsize.          *)
(* A solver state s is the record of solver()'s locals:                    *)
(*   board, dsf, connected, nempty, learn, and failed = an assert fired.   *)

\* merge without "connected[b] = c;": the ring of b is not closed on that of a
merge_half_splice(s, a, b) ==
    LET ra == dsf_canonify(s.dsf, a)
        rb == dsf_canonify(s.dsf, b)
    IN  IF ra = rb THEN s
        ELSE [s EXCEPT !.dsf = dsf_merge(policy, s.dsf, ra, rb),
                       !.connected = [s.connected EXCEPT ![ra] = s.connected[rb]]]

\* merge(dsf, connected, a, b): unite the classes and splice their rings
merge(s, a, b) ==
    LET ra == dsf_canonify(s.dsf, a)
        rb == dsf_canonify(s.dsf, b)
    IN  IF ra = rb THEN s
        ELSE [s EXCEPT !.dsf = dsf_merge(policy, s.dsf, ra, rb),
                       !.connected = [s.connected EXCEPT ![ra] = s.connected[rb],
                                                         ![rb] = s.connected[ra]]]

RECURSIVE expand_nbrs(_, _, _, _, _)
\* the loop over j of expand: merge dst with every neighbour of equal value
expand_nbrs(s, gw, gh, dst, j) ==
    IF j = 4 THEN s
    ELSE IF OffGrid(gw, gh, dst, j) THEN expand_nbrs(s, gw, gh, dst, j + 1)
    ELSE LET idx == Nbr(gw, gh, dst, j)
         IN  IF s.board[idx] # s.board[dst] THEN expand_nbrs(s, gw, gh, dst, j + 1)
             ELSE Bind(merge(s, dst, idx), LAMBDA s2 : expand_nbrs(s2, gw, gh, dst, j + 1))

\* expand(board, connected, dsf, w, h, dst, src, &nempty, &learn)
expand(s, gw, gh, dst, src) ==
    IF s.board[dst] # EMPTY \/ s.board[src] = EMPTY THEN [s EXCEPT !.failed = TRUE]
    ELSE Bind([s EXCEPT !.board = [s.board EXCEPT ![dst] = s.board[src]]], LAMBDA s1 :
         Bind(expand_nbrs(s1, gw, gh, dst, 0), LAMBDA s2 :
              [s2 EXCEPT !.nempty = s2.nempty - 1, !.learn = TRUE]))

RECURSIVE flood_reach(_, _, _, _, _)
\* flood that enters the cells holding n only, not the empty ones
flood_reach_numbered(b, gw, gh, n, seen) ==
    Bind({c \in Cells(gw * gh) \ seen :
                    /\ b[c] = n
                    /\ \E k \in 0 .. 3 : /\ ~OffGrid(gw, gh, c, k)
                                         /\ Nbr(gw, gh, c, k) \in seen},
         LAMBDA more :
             IF more = {} THEN seen
             ELSE Bind(seen \cup more, LAMBDA seen2 : flood_reach(b, gw, gh, n, seen2)))

\* the cells flood visits from the cells in seen: a neighbour is entered when it
\* holds EMPTY or n; a cell already negated holds neither and is not entered again
flood_reach(b, gw, gh, n, seen) ==
    Bind({c \in Cells(gw * gh) \ seen :
                    /\ b[c] = EMPTY \/ b[c] = n
                    /\ \E k \in 0 .. 3 : /\ ~OffGrid(gw, gh, c, k)
                                         /\ Nbr(gw, gh, c, k) \in seen},
         LAMBDA more :
             IF more = {} THEN seen
             ELSE Bind(seen \cup more, LAMBDA seen2 : flood_reach(b, gw, gh, n, seen2)))

\* "if (board[i] == EMPTY) board[i] = -SENTINEL; else if (board[i] == n)
\* board[i] = -board[i]; else return;": the board with the cell i marked, or the
\* board as it is when flood returns at once
flood_mark(b, sz, i, n) ==
    IF b[i] = EMPTY THEN [b EXCEPT ![i] = -sz]
    ELSE IF b[i] = n THEN [b EXCEPT ![i] = -b[i]]
    ELSE b

RECURSIVE flood_calls(_, _, _, _, _)
RECURSIVE flood_nbrs(_, _, _, _, _, _)
\* the loop "for (k = 0; k < 4; ++k)" of flood at the cell i, from direction k on
flood_nbrs(b, gw, gh, i, n, k) ==
    IF k = 4 THEN b
    ELSE IF OffGrid(gw, gh, i, k) THEN flood_nbrs(b, gw, gh, i, n, k + 1)
    ELSE Bind(flood_calls(b, gw, gh, Nbr(gw, gh, i, k), n), LAMBDA b2 :
              flood_nbrs(b2, gw, gh, i, n, k + 1))

\* flood call by call: mark the cell i when it holds EMPTY or n (return when
\* flood_mark left the board as it was), then call flood on its neighbours
flood_calls(b, gw, gh, i, n) ==
    Bind(flood_mark(b, gw * gh, i, n), LAMBDA marked :
         IF marked = b THEN b
         ELSE flood_nbrs(marked, gw, gh, i, n, 0))

\* flood(board, w, h, i, n). A marked cell holds -SENTINEL or -n. When n is not
\* -SENTINEL a mark is neither EMPTY nor n, no cell is entered twice, and the
\* calls negate every cell reached from i through cells that hold EMPTY (which
\* becomes -SENTINEL) or n (which becomes -n). When n is -SENTINEL the cells
\* marked -SENTINEL hold n and are entered and negated again, in the order of
\* the calls.
flood(b, gw, gh, i, n) ==
    IF n = -(gw * gh) THEN flood_calls(b, gw, gh, i, n)
    ELSE IF b[i] # EMPTY /\ b[i] # n THEN b
    ELSE Bind(flood_reach(b, gw, gh, n, {i}), LAMBDA reached :
             Array([c \in Cells(gw * gh) |->
                     IF c \notin reached THEN b[c]
                     ELSE IF b[c] = EMPTY THEN -(gw * gh)
                     ELSE -b[c]]))

\* count_and_clear with "int count = 0;"
count_from_zero(b, sz) ==
    [count |-> Cardinality({i \in Cells(sz) : b[i] < 0}),
     board |-> Array([i \in Cells(sz) |->
                   IF b[i] >= 0 THEN b[i]
                   ELSE IF b[i] = -sz THEN EMPTY
                   ELSE -b[i]])]

\* count_and_clear(board, sz): count the negated cells (less one) and restore them
count_and_clear(b, sz) ==
    [count |-> Cardinality({i \in Cells(sz) : b[i] < 0}) - 1,
     board |-> Array([i \in Cells(sz) |->
                   IF b[i] >= 0 THEN b[i]
                   ELSE IF b[i] = -sz THEN EMPTY
                   ELSE -b[i]])]

\* count(board, w, h, i)
count(b, gw, gh, i) ==
    Bind(flood(b, gw, gh, i, b[i]), LAMBDA marked : count_and_clear(marked, gw * gh))

RECURSIVE SumSizes(_, _)
SumSizes(d, roots) ==
    IF roots = {} THEN 0
    ELSE Bind(CHOOSE x \in roots : TRUE, LAMBDA r :
         Bind(roots \ {r}, LAMBDA rest : dsf_size(d, r) + SumSizes(d, rest)))

\* expandsize(board, dsf, w, h, i, n): 1 + the sizes of the distinct classes of
\* the neighbours of i that hold n
expandsize(b, d, gw, gh, i, n) ==
    LET hits == {dsf_canonify(d, Nbr(gw, gh, i, j)) :
                    j \in {k \in 0 .. 3 : /\ ~OffGrid(gw, gh, i, k)
                                          /\ b[Nbr(gw, gh, i, k)] = n}}
    IN  1 + SumSizes(d, hits)

----------------------------------------------------------------------------
(* solver(): the set-up loops, the visit of one cell i, a pass, the run.   *)

RECURSIVE init_nbrs(_, _, _, _, _)
init_nbrs(s, gw, gh, i, j) ==
    IF j = 4 THEN s
    ELSE IF OffGrid(gw, gh, i, j) THEN init_nbrs(s, gw, gh, i, j + 1)
    ELSE LET idx == Nbr(gw, gh, i, j)
         IN  IF s.board[i] = s.board[idx]
             THEN Bind(merge(s, i, idx), LAMBDA s2 : init_nbrs(s2, gw, gh, i, j + 1))
             ELSE init_nbrs(s, gw, gh, i, j + 1)

RECURSIVE init_cells(_, _, _, _)
init_cells(s, gw, gh, i) ==
    IF i = gw * gh THEN s
    ELSE IF s.board[i] = EMPTY
         THEN Bind([s EXCEPT !.nempty = s.nempty + 1], LAMBDA s2 :
                   init_cells(s2, gw, gh, i + 1))
         ELSE Bind(init_nbrs(s, gw, gh, i, 0), LAMBDA s2 : init_cells(s2, gw, gh, i + 1))

\* solver() up to the "do": copy orig, count the empties, build dsf and rings
solver_init(brd, gw, gh) ==
    init_cells([board |-> brd,
                dsf |-> dsf_init(gw * gh),
                connected |-> Array([i \in Cells(gw * gh) |-> i]),
                nempty |-> 0,
                learn |-> FALSE,
                failed |-> FALSE], gw, gh, 0)

RECURSIVE empty_nbrs(_, _, _, _, _, _)
\* "if (board[i] == EMPTY) { ... }": the loop over k, then dropping in a one
empty_nbrs(s, gw, gh, i, k, one) ==
    IF k = 4 THEN
        IF ~one THEN s
        ELSE IF s.board[i] # EMPTY THEN [s EXCEPT !.failed = TRUE]
        ELSE IF s.nempty = 0
             THEN [s EXCEPT !.board = [s.board EXCEPT ![i] = 1], !.failed = TRUE]
        ELSE [s EXCEPT !.board = [s.board EXCEPT ![i] = 1],
                       !.nempty = s.nempty - 1,
                       !.learn = TRUE]
    ELSE IF OffGrid(gw, gh, i, k) THEN empty_nbrs(s, gw, gh, i, k + 1, one)
    ELSE LET idx == Nbr(gw, gh, i, k)
         IN  IF s.board[idx] = EMPTY THEN empty_nbrs(s, gw, gh, i, k + 1, FALSE)
             ELSE Bind(one /\ ~(\/ s.board[idx] = 1
                                \/ s.board[idx] >=
                                     expandsize(s.board, s.dsf, gw, gh, i, s.board[idx])),
                       LAMBDA one2 :
                  Bind(count([s.board EXCEPT ![i] = -(gw * gh)], gw, gh, idx), LAMBDA cr :
                  Bind([s EXCEPT !.board = cr.board], LAMBDA s2 :
                      IF s.board[i] # EMPTY THEN [s EXCEPT !.failed = TRUE]
                      ELSE IF cr.board[i] # EMPTY THEN [s2 EXCEPT !.failed = TRUE]
                      ELSE IF cr.count >= cr.board[idx]
                          THEN empty_nbrs(s2, gw, gh, i, k + 1, one2)
                      ELSE expand(s2, gw, gh, i, idx))))

\* exp values of the region loop: SENTINEL = sz is "none yet", Ambiguous is "goto next_i"
Ambiguous == -1

RECURSIVE region_nbrs(_, _, _, _, _, _, _)
\* the loop over k for the member j of the region of i; returns exp
region_nbrs(s, gw, gh, i, j, k, exp) ==
    IF k = 4 \/ exp = Ambiguous THEN exp
    ELSE IF OffGrid(gw, gh, j, k) THEN region_nbrs(s, gw, gh, i, j, k + 1, exp)
    ELSE LET idx == Nbr(gw, gh, j, k)
         IN  IF s.board[idx] # EMPTY \/ exp = idx
                 THEN region_nbrs(s, gw, gh, i, j, k + 1, exp)
             ELSE IF expandsize(s.board, s.dsf, gw, gh, idx, s.board[j]) > s.board[j]
                 THEN region_nbrs(s, gw, gh, i, j, k + 1, exp)
             ELSE IF exp # gw * gh THEN Ambiguous
             ELSE region_nbrs(s, gw, gh, i, j, k + 1, idx)

RECURSIVE region_ring(_, _, _, _, _, _)
\* "do { ... j = connected[j]; } while (j != i)"; returns exp, or Failed
Failed == -2
region_ring(s, gw, gh, i, j, exp) ==
    Bind(region_nbrs(s, gw, gh, i, j, 0, exp), LAMBDA e :
    Bind(s.connected[j], LAMBDA nj :
        IF e = Ambiguous THEN Ambiguous
        ELSE IF s.board[i] # s.board[nj] THEN Failed
        ELSE IF nj = i THEN e
        ELSE region_ring(s, gw, gh, i, nj, e)))

\* the body of "for (i = 0; i < sz; ++i)" in the solver's main loop
solver_visit(s, gw, gh, i) ==
    IF s.board[i] = EMPTY THEN empty_nbrs(s, gw, gh, i, 0, TRUE)
    ELSE IF dsf_canonify(s.dsf, i) # i THEN s
    ELSE IF dsf_size(s.dsf, i) = s.board[i] THEN s
    ELSE Bind(region_ring(s, gw, gh, i, i, gw * gh), LAMBDA exp :
             IF exp = Failed THEN [s EXCEPT !.failed = TRUE]
             ELSE IF exp = Ambiguous \/ exp = gw * gh THEN s
             ELSE expand(s, gw, gh, exp, i))

RECURSIVE solver_pass(_, _, _, _)
\* one turn of the do-loop from cell i on; an assert that fires ends the run
solver_pass(s, gw, gh, i) ==
    IF i = gw * gh \/ s.failed THEN s
    ELSE Bind(solver_visit(s, gw, gh, i), LAMBDA s2 : solver_pass(s2, gw, gh, i + 1))

RECURSIVE solver_loop(_, _, _)
\* "do { learn = FALSE; ... } while (learn && nempty);"
solver_loop(s, gw, gh) ==
    Bind(solver_pass([s EXCEPT !.learn = FALSE], gw, gh, 0), LAMBDA s1 :
        IF s1.failed \/ ~(s1.learn /\ s1.nempty # 0) THEN s1
        ELSE solver_loop(s1, gw, gh))

\* solver that reports success only when its last pass learned something
solver_needs_progress(brd, gw, gh) ==
    LET s == solver_loop(solver_init(brd, gw, gh), gw, gh)
    IN  [ret |-> ~s.failed /\ s.nempty = 0 /\ s.learn, board |-> s.board, failed |-> s.failed]

\* solver(orig, w, h, solution): ret is the returned int, board the final board
solver(brd, gw, gh) ==
    LET s == solver_loop(solver_init(brd, gw, gh), gw, gh)
    IN  [ret |-> ~s.failed /\ s.nempty = 0, board |-> s.board, failed |-> s.failed]

----------------------------------------------------------------------------
(* solver() step by step: one action per visited cell of a pass.           *)

\* solver(orig, w, h, &aux) up to the "do"
SV_Init ==
    /\ pc = "sv_call"
    /\ sv' = solver_init(orig, w, h)
    /\ si' = 0
    /\ passes' = 1
    /\ pc' = "sv_visit"
    /\ UNCHANGED <<w, h, policy, genVars, descVars, gameVars, orig>>

\* the body of the for loop for a cell that holds EMPTY
SV_Empty ==
    /\ pc = "sv_visit"
    /\ si < w * h
    /\ sv.board[si] = EMPTY
    /\ \E s2 \in {solver_visit(sv, w, h, si)} :
          /\ sv' = s2
          /\ pc' = IF s2.failed THEN "sv_abort" ELSE pc
    /\ si' = si + 1
    /\ UNCHANGED <<w, h, policy, genVars, descVars, gameVars, orig, passes>>

\* the body of the for loop for a cell that holds a number
SV_Region ==
    /\ pc = "sv_visit"
    /\ si < w * h
    /\ sv.board[si] # EMPTY
    /\ \E s2 \in {solver_visit(sv, w, h, si)} :
          /\ sv' = s2
          /\ pc' = IF s2.failed THEN "sv_abort" ELSE pc
    /\ si' = si + 1
    /\ UNCHANGED <<w, h, policy, genVars, descVars, gameVars, orig, passes>>

\* "} while (learn && nempty);" taken: "learn = FALSE;" and the next pass
SV_NextPass ==
    /\ pc = "sv_visit"
    /\ si = w * h
    /\ sv.learn /\ sv.nempty # 0
    /\ sv' = [sv EXCEPT !.learn = FALSE]
    /\ si' = 0
    /\ passes' = passes + 1
    /\ UNCHANGED <<w, h, policy, pc, genVars, descVars, gameVars, orig>>

\* "} while (learn && nempty);" left: the solution is written, "return !nempty;"
SV_Return ==
    /\ pc = "sv_visit"
    /\ si = w * h
    /\ ~(sv.learn /\ sv.nempty # 0)
    /\ pc' = "sv_return"
    /\ UNCHANGED <<w, h, policy, genVars, descVars, gameVars, solveVars>>

\* the value solver returns, and the solution string it writes
sv_ret == sv.nempty = 0
sv_solution == <<115>> \o [i \in 1 .. w * h |-> to_char(sv.board[i - 1] + Ch0)]

----------------------------------------------------------------------------
(* new_game_desc: sort the cells by descending region size, blank them one *)
(* by one while the solver still succeeds, and encode what is left.        *)

\* compare(pa, pb) with g_board = b
compare(b, pa, pb) == b[pb] - b[pa]

\* qsort(randomize, sz, sizeof (int), compare): any arrangement of randomize
\* that is ordered by compare; the order of equal keys is not specified
qsort(r, sz, b) ==
    {q \in shuffle(r, sz) : \A i \in 0 .. (sz - 2) : compare(b, q[i], q[i + 1]) <= 0}

\* "game_description[i] = solver_board[i] + '0'"
encode(b, sz) == [i \in 1 .. sz |-> to_char(b[i - 1] + Ch0)]

\* new_game: "state->shared->clues[i] = desc[i] - '0'"
decode(str, sz) == Array([i \in Cells(sz) |-> str[i + 1] - Ch0])

\* memcpy(solver_board, board, ...); g_board = board; qsort(...)
NGD_Sort ==
    /\ pc = "mb_return"
    /\ solver_board' = board
    /\ randomize' \in qsort(randomize, w * h, board)
    /\ ni' = 0
    /\ pc' = "ngd_loop"
    /\ UNCHANGED <<descVars, gameVars, solveVars>>
    /\ UNCHANGED <<w, h, policy, board, dsf, game_description>>

\* blank_step that never puts the clue back
blank_step_no_restore(sb, b, gw, gh, c) == [sb EXCEPT ![c] = EMPTY]

\* blank_step that always puts the clue back
blank_step_always_restore(sb, b, gw, gh, c) == [[sb EXCEPT ![c] = EMPTY] EXCEPT ![c] = b[c]]

\* the clue board after one turn of the blanking loop on cell c
blank_step(sb, b, gw, gh, c) ==
    LET sb1 == [sb EXCEPT ![c] = EMPTY]
    IN  IF solver(sb1, gw, gh).ret THEN sb1
        ELSE [sb1 EXCEPT ![c] = b[c]]

\* one turn of "for (i = 0; i < sz; ++i)": blank, solve, restore on failure
NGD_Blank ==
    /\ pc = "ngd_loop"
    /\ ni < w * h
    /\ solver_board' = blank_step(solver_board, board, w, h, randomize[ni])
    /\ ni' = ni + 1
    /\ pc' = IF solver([solver_board EXCEPT ![randomize[ni]] = EMPTY], w, h).failed
             THEN "abort" ELSE "ngd_loop"
    /\ UNCHANGED <<descVars, gameVars, solveVars>>
    /\ UNCHANGED <<w, h, policy, board, dsf, randomize, game_description>>

\* the encoding loop after the blanking loop
NGD_Encode ==
    /\ pc = "ngd_loop"
    /\ ni = w * h
    /\ IF \A i \in Cells(w * h) : solver_board[i] >= 0 /\ solver_board[i] < 10
       THEN /\ game_description' = encode(solver_board, w * h)
            /\ pc' = "ngd_encoded"
       ELSE /\ game_description' = game_description
            /\ pc' = "abort"
    /\ UNCHANGED <<descVars, gameVars, solveVars>>
    /\ UNCHANGED <<w, h, policy, board, dsf, randomize, solver_board, ni>>

\* sfree(randomize); sfree(solver_board); sfree(board); return game_description
NGD_Return ==
    /\ pc = "ngd_encoded"
    /\ randomize' = NoArray
    /\ solver_board' = NoArray
    /\ board' = NoArray
    /\ pc' = "ngd_done"
    /\ UNCHANGED <<descVars, gameVars, solveVars>>
    /\ UNCHANGED <<w, h, policy, dsf, ni, game_description>>

----------------------------------------------------------------------------

Grids == {g \in (1 .. MaxSide) \X (1 .. MaxSide) : g[1] * g[2] <= MaxCells}

Init ==
    /\ \E g \in Grids : w = g[1] /\ h = g[2]
    /\ policy \in Policies
    /\ pc = "mb_shuffle"
    /\ board = [i \in Cells(w * h) |-> i]
    /\ dsf = dsf_init(w * h)
    /\ randomize = Array([i \in Cells(w * h) |-> i])
    /\ solver_board = NoArray
    /\ ni = 0
    /\ game_description = NoArray
    /\ desc = NoArray
    /\ verdict = "NULL"
    /\ games = NoArray
    /\ shared = NoArray
    /\ move = NoArray
    /\ from = 0
    /\ ret = 0
    /\ nmoves = 0
    /\ SolveIdle

Next ==
    \/ MB_Shuffle
    \/ MB_Repair
    \/ MB_Abandon
    \/ MB_Fill
    \/ MB_Return
    \/ NGD_Sort
    \/ NGD_Blank
    \/ NGD_Encode
    \/ NGD_Return

Spec == Init /\ [][Next]_vars

\* the clue board with the cells of S blanked
blanked(b, S) == Array([i \in DOMAIN b |-> IF i \in S THEN EMPTY ELSE b[i]])

RECURSIVE same_value_region(_, _, _, _)
\* the maximal orthogonally-connected set of cells holding the value of the cells in seen
same_value_region(b, gw, gh, seen) ==
    LET more == {c \in Cells(gw * gh) \ seen :
                    \E k \in 0 .. 3 : /\ ~OffGrid(gw, gh, c, k)
                                      /\ Nbr(gw, gh, c, k) \in seen
                                      /\ b[Nbr(gw, gh, c, k)] = b[c]}
    IN  IF more = {} THEN seen ELSE same_value_region(b, gw, gh, seen \cup more)

\* the full boards in which every region has as many cells as its value, a value
\* being any number of cells of the grid; the cells that hold a value v are then
\* a multiple of v, which is tested first
ValidBoards(gw, gh) ==
    {b \in [Cells(gw * gh) -> 1 .. gw * gh] :
        /\ \A v \in 1 .. gw * gh : Cardinality({c \in Cells(gw * gh) : b[c] = v}) % v = 0
        /\ \A c \in Cells(gw * gh) :
               Cardinality(same_value_region(b, gw, gh, {c})) = b[c]}

\* the clue boards that have a solution: a valid full board with some cells blanked
ClueBoards(gw, gh) ==
    UNION {{blanked(b, S) : S \in SUBSET Cells(gw * gh)} : b \in ValidBoards(gw, gh)}

\* the clue boards that have a solution, of all the grids, each with its w and h
SolvableClues ==
    UNION {{<<g[1], g[2], b>> : b \in ClueBoards(g[1], g[2])} : g \in Grids}

\* solver alone, called on every board of the grid with values in 0 .. maxsize,
\* on the boards of empty cells and cells holding -SENTINEL (the clues new_game
\* reads from a ',' on a grid of 4 cells), and on every clue board that has a
\* solution, whatever its values
SolveBoards(gw, gh) ==
    [Cells(gw * gh) -> 0 .. maxsize(gw, gh)] \cup [Cells(gw * gh) -> {-(gw * gh), EMPTY}]

SolveStart ==
    /\ policy \in Policies
    /\ pc = "sv_call"
    /\ board = NoArray
    /\ dsf = NoArray
    /\ randomize = NoArray
    /\ solver_board = NoArray
    /\ ni = 0
    /\ game_description = NoArray
    /\ desc = NoArray
    /\ verdict = "NULL"
    /\ games = NoArray
    /\ shared = NoArray
    /\ move = NoArray
    /\ from = 0
    /\ ret = 0
    /\ nmoves = 0
    /\ sv = NoArray
    /\ si = 0
    /\ passes = 0

SolveInit ==
    /\ \E g \in Grids : w = g[1] /\ h = g[2]
    /\ orig \in SolveBoards(w, h) \cup ClueBoards(w, h)
    /\ SolveStart

SolveNext ==
    \/ SV_Init
    \/ SV_Empty
    \/ SV_Region
    \/ SV_NextPass
    \/ SV_Return

SolveSpec == SolveInit /\ [][SolveNext]_vars

\* the solver's steps are taken one after the other until it returns or aborts
SolveLive == SolveSpec /\ WF_vars(SolveNext)

\* solver called on the boards of a strip of StripLen cells, lying or standing
StripInit ==
    /\ \E g \in {<<1, StripLen>>, <<StripLen, 1>>} : w = g[1] /\ h = g[2]
    /\ orig \in SolveBoards(w, h)
    /\ SolveStart

StripSpec == StripInit /\ [][SolveNext]_vars

StripLive == StripSpec /\ WF_vars(SolveNext)

\* the example of the comment before board_to_string: the 7x7 clue board and its solution
ExampleClues ==
    <<54, 48, 48, 50, 48, 48, 50, 48, 51, 48, 54, 48, 51, 48,
      51, 48, 48, 48, 48, 48, 49, 48, 50, 51, 48, 52, 50, 48,
      50, 48, 48, 48, 48, 48, 51, 48, 53, 48, 49, 48, 52, 48,
      52, 48, 48, 51, 48, 48, 51>>
ExampleSolved ==
    <<54, 54, 54, 50, 50, 51, 50, 51, 51, 54, 54, 54, 51, 50,
      51, 50, 51, 51, 49, 51, 49, 49, 50, 51, 53, 52, 50, 50,
      50, 53, 53, 53, 52, 52, 51, 50, 53, 52, 49, 51, 52, 51,
      52, 52, 52, 51, 51, 49, 51>>

ExampleInit ==
    /\ w = 7 /\ h = 7
    /\ orig = decode(ExampleClues, 49)
    /\ SolveStart

ExampleSpec == ExampleInit /\ [][SolveNext]_vars

\* make_board alone
GenNext ==
    \/ MB_Shuffle
    \/ MB_Repair
    \/ MB_Abandon
    \/ MB_Fill
    \/ MB_Return

GenSpec == Init /\ [][GenNext]_vars

RECURSIVE attempt_returns(_, _, _, _, _)
\* the inner loop of make_board run from the dsf d on the arrangement sq: TRUE when
\* it ends with a board, FALSE when it breaks to retry
attempt_returns(pol, d, gw, gh, sq) ==
    LET v == validate_board(d, gw, gh, sq)
        d2 == repair(pol, d, gw * gh, v)
    IN  IF v.a = gw * gh THEN TRUE
        ELSE IF too_big(d2, gw, gh, dsf_canonify(d, v.a)) THEN FALSE
        ELSE attempt_returns(pol, d2, gw, gh, sq)

\* the arrangements of each grid from which the attempt ends with a board
Returning ==
    Array([g \in Grids, pol \in Policies |->
        {sq \in shuffle(dsf_init(g[1] * g[2]), g[1] * g[2]) :
            attempt_returns(pol, dsf_init(g[1] * g[2]), g[1], g[2], sq)}])

\* the MB_Shuffle steps that produce one of these arrangements (the board is an
\* arrangement of 0 .. sz - 1 whenever shuffle is called, so each of them is one
\* of its outcomes)
MB_ShuffleReturning ==
    /\ pc = "mb_shuffle"
    /\ board' \in Returning[<<w, h>>, policy]
    /\ pc' = "mb_repair"
    /\ UNCHANGED <<descVars, gameVars, solveVars>>
    /\ UNCHANGED <<w, h, policy, dsf, randomize, solver_board, ni, game_description>>

\* make_board under fair scheduling: a step of the function that can be taken is
\* taken, and a shuffle that is called again and again produces every arrangement
\* again and again (each has probability 1 / sz!), so it produces again and again
\* an arrangement of Returning when there is one
LiveSpec ==
    /\ Init
    /\ [][GenNext]_vars
    /\ WF_vars(MB_Repair)
    /\ WF_vars(MB_Abandon)
    /\ WF_vars(MB_Fill)
    /\ WF_vars(MB_Return)
    /\ SF_vars(MB_ShuffleReturning)

----------------------------------------------------------------------------
(* validate_desc. A C string is the sequence of its characters; the byte   *)
(* at offset p is At(str, p), which is the terminating NUL at offset Len.  *)

NUL == 0

At(str, p) == IF p < Len(str) THEN str[p + 1] ELSE NUL

\* isdigit in the C locale
isdigit(c) == c >= Ch0 /\ c <= Ch0 + 9

\* "const char m = '0' + max(max(params->w, params->h), 3);"
vd_m(gw, gh) == to_char(Ch0 + Max2(Max2(gw, gh), 3))

RECURSIVE vd_loop(_, _, _, _)
\* "for (i = 0; desc[i] && i < sz; ++i)": a message, or the i the loop ends with
vd_loop(str, sz, m, i) ==
    IF At(str, i) = NUL \/ i >= sz THEN [msg |-> "NULL", i |-> i]
    ELSE IF ~isdigit(At(str, 0)) THEN [msg |-> "non-digit in string", i |-> i]
    ELSE IF At(str, i) > m THEN [msg |-> "too large digit in string", i |-> i]
    ELSE vd_loop(str, sz, m, i + 1)

\* validate_desc(params, desc): the returned message, "NULL" for NULL
validate_desc(gw, gh, str) ==
    LET r == vd_loop(str, gw * gh, vd_m(gw, gh), 0)
    IN  IF r.msg # "NULL" THEN r.msg
        ELSE IF At(str, r.i) # NUL THEN "string too long"
        ELSE IF r.i < gw * gh THEN "string too short"
        ELSE "NULL"

RECURSIVE Strings(_, _)
\* the strings of up to n characters of the alphabet A
Strings(A, n) ==
    IF n = 0 THEN {<<>>}
    ELSE LET shorter == Strings(A, n - 1)
         IN  shorter \cup {Append(t, c) : t \in shorter, c \in A}

\* the characters descriptions are made of: '/', '0', '3', '4', 'a'
DescChars == {47, 48, 51, 52, 97}

DescGrids == {g \in (1 .. MaxDescCells) \X (1 .. MaxDescCells) : g[1] * g[2] <= MaxDescCells}

\* a description and the parameters it is validated against
DescInit ==
    /\ \E g \in DescGrids : w = g[1] /\ h = g[2]
    /\ policy \in Policies
    /\ pc = "vd_call"
    /\ desc \in Strings(DescChars, MaxDescLen)
    /\ verdict = "NULL"
    /\ board = NoArray
    /\ dsf = NoArray
    /\ randomize = NoArray
    /\ solver_board = NoArray
    /\ ni = 0
    /\ game_description = NoArray
    /\ games = NoArray
    /\ shared = NoArray
    /\ move = NoArray
    /\ from = 0
    /\ ret = 0
    /\ nmoves = 0
    /\ SolveIdle

ValidateDesc ==
    /\ pc = "vd_call"
    /\ verdict' = validate_desc(w, h, desc)
    /\ pc' = "vd_done"
    /\ UNCHANGED <<w, h, policy, desc, genVars, gameVars, solveVars>>

DescNext == ValidateDesc

SpecDesc == DescInit /\ [][DescNext]_vars

----------------------------------------------------------------------------
(* strtol of the C library, as execute_move calls it: it skips white space, *)
(* takes a sign, and with base 0 reads "0x" as hexadecimal and a leading    *)
(* "0" as octal. The result is a long of 64 bits: a value that does not fit *)
(* is LONG_MAX or LONG_MIN with errno = ERANGE. execute_move stores the     *)
(* result in an int, which keeps its low 32 bits. The magnitude is held as  *)
(* four digits of 16 bits, the lowest first.                                *)

isspace(c) == c = 32 \/ (c >= 9 /\ c <= 13)

\* the value of the character c as a digit; 36 when it is none
digit_value(c) ==
    IF c >= 48 /\ c <= 57 THEN c - 48
    ELSE IF c >= 97 /\ c <= 122 THEN c - 97 + 10
    ELSE IF c >= 65 /\ c <= 90 THEN c - 65 + 10
    ELSE 36

RECURSIVE skip_space(_, _)
skip_space(str, p) == IF isspace(At(str, p)) THEN skip_space(str, p + 1) ELSE p

\* the magnitude m times base plus the digit d: [mag, over], over when 64 bits
\* do not hold it
mul_add(m, base, d) ==
    LET t1 == m[1] * base + d
        t2 == m[2] * base + (t1 \div 65536)
        t3 == m[3] * base + (t2 \div 65536)
        t4 == m[4] * base + (t3 \div 65536)
    IN  [mag |-> <<t1 % 65536, t2 % 65536, t3 % 65536, t4 % 65536>>,
         over |-> t4 \div 65536 # 0]

RECURSIVE read_digits(_, _, _, _, _)
\* the digits of the base from offset p on: [mag, over, endp] with the magnitude
\* m read so far
read_digits(str, p, base, m, over) ==
    IF digit_value(At(str, p)) >= base THEN [mag |-> m, over |-> over, endp |-> p]
    ELSE LET r == mul_add(m, base, digit_value(At(str, p)))
         IN  read_digits(str, p + 1, base, r.mag, over \/ r.over)

\* the int that holds the low 32 bits lo + 65536 * hi of a long
to_int(lo, hi) ==
    IF hi >= 32768 THEN (hi - 65536) * 65536 + lo ELSE hi * 65536 + lo

\* (int) of the long of magnitude m, negated when neg
int_of(m, neg) ==
    IF ~neg THEN to_int(m[1], m[2])
    ELSE to_int((65536 - m[1]) % 65536,
                (65535 - m[2] + (IF m[1] = 0 THEN 1 ELSE 0)) % 65536)

\* the magnitude m, with the sign neg, is outside LONG_MIN .. LONG_MAX
out_of_long(m, neg) ==
    IF neg THEN m[4] > 32768 \/ (m[4] = 32768 /\ (m[1] # 0 \/ m[2] # 0 \/ m[3] # 0))
    ELSE m[4] >= 32768

\* strtol(str + p, &endptr, base): [val, erange, endp]; val is the result as the
\* int execute_move keeps, erange is errno == ERANGE, endp the offset endptr
\* points at
strtol(str, p, base) ==
    LET p1 == skip_space(str, p)
        neg == At(str, p1) = 45
        p2 == IF At(str, p1) = 45 \/ At(str, p1) = 43 THEN p1 + 1 ELSE p1
        hex == /\ base = 0 \/ base = 16
               /\ At(str, p2) = 48
               /\ At(str, p2 + 1) = 120 \/ At(str, p2 + 1) = 88
               /\ digit_value(At(str, p2 + 2)) < 16
        b == IF hex THEN 16
             ELSE IF base # 0 THEN base
             ELSE IF At(str, p2) = 48 THEN 8
             ELSE 10
        p3 == IF hex THEN p2 + 2 ELSE p2
        r == read_digits(str, p3, b, <<0, 0, 0, 0>>, FALSE)
    IN  IF r.endp = p3 THEN [val |-> 0, erange |-> FALSE, endp |-> p]
        ELSE IF r.over \/ out_of_long(r.mag, neg)
             THEN [val |-> IF neg THEN 0 ELSE -1, erange |-> TRUE, endp |-> r.endp]
        ELSE [val |-> int_of(r.mag, neg), erange |-> FALSE, endp |-> r.endp]

----------------------------------------------------------------------------
(* The game states: new_game, dup_game, free_game, execute_move.           *)
(* games[g] is the game_state at address g: live (allocated and not yet    *)
(* freed), board, completed, cheated, damaged (the header of its board's   *)
(* block was overwritten); every state points to the one shared_state,     *)
(* shared = [live, refcnt, clues, damaged], whose params are w and h.      *)

RECURSIVE dsf_cells(_, _, _, _, _, _)
\* the loops of make_dsf from cell i, direction j on
dsf_cells(d, b, gw, gh, i, j) ==
    IF i = gw * gh THEN d
    ELSE IF j = 4 THEN dsf_cells(d, b, gw, gh, i + 1, 0)
    ELSE IF OffGrid(gw, gh, i, j) THEN dsf_cells(d, b, gw, gh, i, j + 1)
    ELSE IF b[i] = b[Nbr(gw, gh, i, j)]
         THEN dsf_cells(dsf_merge(policy, d, i, Nbr(gw, gh, i, j)), b, gw, gh, i, j + 1)
    ELSE dsf_cells(d, b, gw, gh, i, j + 1)

\* make_dsf(NULL, board, w, h)
make_dsf(b, gw, gh) == dsf_cells(dsf_init(gw * gh), b, gw, gh, 0, 0)

\* "Check for completion": the completed flag of a new state with board b
check_completion(done, b, gw, gh) ==
    IF done THEN TRUE
    ELSE LET d == make_dsf(b, gw, gh)
         IN  \A i \in Cells(gw * gh) : b[i] = dsf_size(d, i)

\* the game_state dup_game(state) allocates; its board is a new block of memory,
\* so a damaged block of st (see outside_write) is not inherited
dup_state(st) ==
    [live |-> TRUE, board |-> st.board, completed |-> st.completed,
     cheated |-> st.cheated, damaged |-> FALSE]

\* the heap after dup_game(state) on the state at address g of the game states gs
\* with the shared state sh: the new state is the last one, "++ret->shared->refcnt"
dup_game(gs, sh, g) ==
    [games |-> Append(gs, dup_state(gs[g])),
     shared |-> [sh EXCEPT !.refcnt = sh.refcnt + 1]]

\* new_game(me, params, desc)
NewGame ==
    /\ pc = "new_game"
    /\ shared' = [live |-> TRUE, refcnt |-> 1, clues |-> decode(desc, w * h),
                  damaged |-> FALSE]
    /\ games' = <<[live |-> TRUE, board |-> decode(desc, w * h),
                   completed |-> FALSE, cheated |-> FALSE, damaged |-> FALSE]>>
    /\ pc' = "play"
    /\ UNCHANGED <<w, h, policy, genVars, descVars, solveVars, move, from, ret, nmoves>>

\* the addresses of the allocated game states
Live == {g \in 1 .. Len(games) : games[g].live}

\* dup_game(state) on the state at address g. When the shared state has been freed
\* although the state is live (its refcnt was overwritten, see outside_write), the
\* call reads freed memory and the run is followed no further (pc = "lost")
DupGame(g) ==
    /\ pc = "play"
    /\ Len(games) < MaxGames
    /\ g \in Live
    /\ IF shared.live
       THEN /\ games' = dup_game(games, shared, g).games
            /\ shared' = dup_game(games, shared, g).shared
            /\ pc' = pc
       ELSE pc' = "lost" /\ UNCHANGED <<games, shared>>
    /\ UNCHANGED <<w, h, policy, genVars, descVars, solveVars, move, from, ret, nmoves>>

\* free_game(state) on the state at address g: "sfree(state->board)" of a block
\* whose header a write outside a board has overwritten aborts the program; so
\* does, after "--state->shared->refcnt == 0", the freeing of the clue set when its
\* blocks' headers were overwritten. With the shared state freed already the call
\* reads freed memory (pc = "lost")
FreeGame(g) ==
    /\ pc = "play"
    /\ g \in Live
    /\ IF ~shared.live
       THEN pc' = "lost" /\ UNCHANGED <<games, shared>>
       ELSE IF games[g].damaged
       THEN pc' = "crashed" /\ UNCHANGED <<games, shared>>
       ELSE IF shared.refcnt - 1 = 0 /\ shared.damaged
       THEN /\ pc' = "crashed"
            /\ shared' = [shared EXCEPT !.refcnt = shared.refcnt - 1]
            /\ UNCHANGED games
       ELSE /\ games' = [games EXCEPT ![g].live = FALSE]
            /\ shared' = [shared EXCEPT !.refcnt = shared.refcnt - 1,
                                        !.live = shared.refcnt - 1 # 0]
            /\ pc' = pc
    /\ UNCHANGED <<w, h, policy, genVars, descVars, solveVars, move, from, ret, nmoves>>

\* what a read outside the move string finds is not defined: the call crashes, or
\* it reads what the memory after the string holds, which is any byte at each
\* offset (a char of the build, which is signed)
StrayBytes == -128 .. 127

\* the board of "for (++move; i < sz; ++i) new_state->board[i] = move[i] - '0';":
\* the bytes up to the terminating NUL are the string's, the byte read for a
\* cell i after it is stray[i]
solve_board(str, sz, stray) ==
    Array([i \in Cells(sz) |->
               (IF i + 1 <= Len(str) THEN At(str, i + 1) ELSE stray[i]) - Ch0])

\* the boards of the loop with every choice of the bytes after the terminator
solve_boards(str, sz) ==
    {solve_board(str, sz, stray) : stray \in [Len(str) .. sz - 1 -> StrayBytes]}

\* an outcome of a call of execute_move: what the call does ("NULL": it returns
\* NULL; "state": it returns the new state, the last of games; "crash": it aborts;
\* "lost": it goes on with sizes or addresses that are not the game's any more, and
\* the run is followed no further) and the heap it leaves: the game states, the
\* shared state and its params
outcome(kind, gs, sh, gw, gh) ==
    [kind |-> kind, games |-> gs, shared |-> sh, w |-> gw, h |-> gh]

\* "Check for completion" on the new state, the last of gs, and "return new_state"
completion(gs, sh, gw, gh) ==
    outcome("state",
            [gs EXCEPT ![Len(gs)].completed =
                 check_completion(gs[Len(gs)].completed, gs[Len(gs)].board, gw, gh)],
            sh, gw, gh)

\* "new_state->board[i] = value;" with i outside the board, in the heap gs, sh that
\* dup_game left, is not defined. The call crashes, or the int is written where
\* the address lies; what lies there depends on where the allocator put the blocks
\* and on what was freed before, so every out-of-board index can reach every
\* target: no object in use; the header of the block of a state's board (the state
\* is damaged: freeing it aborts) or of the clue set; completed or cheated of the
\* new state or of an older one; a board cell of an older state; shared->clues[c];
\* shared->refcnt; and shared->params.w or .h, or a pointer (board, shared, clues),
\* after which the completion check and every later call work with sizes or
\* addresses that are not the game's ("lost")
outside_write(gs, sh, value, gw, gh) ==
    LET n == Len(gs)
        older == {k \in 1 .. n - 1 : gs[k].live}
    IN  {outcome("crash", gs, sh, gw, gh), completion(gs, sh, gw, gh)}
            \cup {completion([gs EXCEPT ![k].damaged = TRUE], sh, gw, gh) :
                      k \in older \cup {n}}
            \cup {completion([gs EXCEPT ![k].completed = (value # 0)], sh, gw, gh) :
                      k \in older \cup {n}}
            \cup {completion([gs EXCEPT ![k].cheated = (value # 0)], sh, gw, gh) :
                      k \in older \cup {n}}
            \cup {completion([gs EXCEPT ![k].board[c] = value], sh, gw, gh) :
                      k \in older, c \in Cells(gw * gh)}
            \cup {completion(gs, [sh EXCEPT !.clues[c] = value], gw, gh) :
                      c \in Cells(gw * gh)}
            \cup {completion(gs, [sh EXCEPT !.refcnt = value], gw, gh),
                  completion(gs, [sh EXCEPT !.damaged = TRUE], gw, gh),
                  outcome("lost", gs, sh, gw, gh)}
            \cup (IF value # gw THEN {outcome("lost", gs, sh, value, gh)} ELSE {})
            \cup (IF value # gh THEN {outcome("lost", gs, sh, gw, value)} ELSE {})

\* the solve branch of execute_move, "if (*move == 's')", from dup_game on: the
\* loop reads sz bytes after the 's', and past the terminator of a shorter string
solve_move(gs, sh, g, str, gw, gh) ==
    LET sz == gw * gh
        heap == dup_game(gs, sh, g)
        n == Len(heap.games)
    IN  {completion([heap.games EXCEPT ![n].board = b, ![n].cheated = TRUE],
                    heap.shared, gw, gh) : b \in solve_boards(str, sz)}
            \cup (IF Len(str) < sz
                  THEN {outcome("crash", heap.games, heap.shared, gw, gh)}
                  ELSE {})

\* the edit branch of execute_move from dup_game on:
\* "new_state = dup_game(state); new_state->board[i] = value;"
edit_move(gs, sh, g, i, value, gw, gh) ==
    LET heap == dup_game(gs, sh, g)
        n == Len(heap.games)
    IN  IF i \in Cells(gw * gh)
        THEN {completion([heap.games EXCEPT ![n].board[i] = value],
                         heap.shared, gw, gh)}
        ELSE outside_write(heap.games, heap.shared, value, gw, gh)

\* execute_move without "if (*endptr != '\0') return NULL;"
execute_move_any_tail(gs, sh, g, str, gw, gh) ==
    IF At(str, 0) = 115
    THEN IF sh.live THEN solve_move(gs, sh, g, str, gw, gh)
         ELSE {outcome("lost", gs, sh, gw, gh)}
    ELSE LET r1 == strtol(str, 0, 0)
             r2 == strtol(str, r1.endp + 1, 0)
         IN  IF r1.erange THEN {outcome("NULL", gs, sh, gw, gh)}
             ELSE IF r1.endp = 0 THEN {outcome("NULL", gs, sh, gw, gh)}
             ELSE IF At(str, r1.endp) # 95 THEN {outcome("NULL", gs, sh, gw, gh)}
             ELSE IF r2.endp = r1.endp + 1 THEN {outcome("NULL", gs, sh, gw, gh)}
             ELSE IF ~sh.live THEN {outcome("lost", gs, sh, gw, gh)}
             ELSE edit_move(gs, sh, g, r1.val, r2.val, gw, gh)

\* execute_move(state, move) on the state at address g of the game states gs with
\* the shared state sh: the outcomes the call can have. A return of NULL precedes
\* dup_game and changes nothing; every other outcome has the new state allocated
\* and the refcnt incremented. With the shared state freed although the state is
\* live, dup_game reads freed memory ("lost").
execute_move(gs, sh, g, str, gw, gh) ==
    IF At(str, 0) = 115
    THEN IF sh.live THEN solve_move(gs, sh, g, str, gw, gh)
         ELSE {outcome("lost", gs, sh, gw, gh)}
    ELSE LET r1 == strtol(str, 0, 0)
             r2 == strtol(str, r1.endp + 1, 0)
         IN  IF r1.erange THEN {outcome("NULL", gs, sh, gw, gh)}
             ELSE IF r1.endp = 0 THEN {outcome("NULL", gs, sh, gw, gh)}
             ELSE IF At(str, r1.endp) # 95 THEN {outcome("NULL", gs, sh, gw, gh)}
             ELSE IF r2.endp = r1.endp + 1 THEN {outcome("NULL", gs, sh, gw, gh)}
             ELSE IF At(str, r2.endp) # NUL THEN {outcome("NULL", gs, sh, gw, gh)}
             ELSE IF ~sh.live THEN {outcome("lost", gs, sh, gw, gh)}
             ELSE edit_move(gs, sh, g, r1.val, r2.val, gw, gh)

\* the tokens moves are made of: "", "0", "4", "-1", " 1", "0x1", "a"
IndexTokens ==
    {<<>>, <<48>>, <<52>>, <<45, 49>>, <<32, 49>>, <<48, 120, 49>>, <<97>>}

\* "", "1", "99", "0x1", "1x"
ValueTokens == {<<>>, <<49>>, <<57, 57>>, <<48, 120, 49>>, <<49, 120>>}

\* the moves without a '_': an index alone, "0 1" and "abc"
BareMoves == IndexTokens \cup {<<48, 32, 49>>, <<97, 98, 99>>}

\* 's' and sz - 2 times '1' (one byte is read after the terminator), 's' and sz
\* times '1', 's' and sz - 1 times '3' and a '1'
SolveMoves(sz) ==
    {<<115>> \o t : t \in {[i \in 1 .. sz - 2 |-> Ch0 + 1], [i \in 1 .. sz |-> Ch0 + 1],
                            [i \in 1 .. sz |-> IF i < sz THEN Ch0 + 3 ELSE Ch0 + 1]}}

\* the edits of cells whose number an int, or a long, does not hold:
\* "4294967296_1" and "99999999999999999999_1"
WideMoves ==
    {<<52, 50, 57, 52, 57, 54, 55, 50, 57, 54, 95, 49>>,
     [i \in 1 .. 20 |-> 57] \o <<95, 49>>}

\* the edits that, with the blocks of the heap laid out in the order of their
\* allocation, write to new_state->completed, to new_state->cheated and to
\* shared->refcnt: "-4_1", "-3_1" and "-28_5"
StructMoves == {<<45, 52, 95, 49>>, <<45, 51, 95, 49>>, <<45, 50, 56, 95, 53>>}

Moves(sz) ==
    {i \o <<95>> \o v : i \in IndexTokens, v \in ValueTokens}
        \cup BareMoves \cup WideMoves \cup StructMoves \cup SolveMoves(sz)

\* the moves made after the first one: "0_1" and the malformed "0_1x"
LaterMoves(sz) == {<<48, 95, 49>>, <<48, 95, 49, 120>>}

\* execute_move(state, move) on the state at address g with the move m
ExecuteMove(g, m) ==
    /\ pc = "play"
    /\ nmoves < MaxMoves
    /\ g \in Live
    /\ m \in (IF nmoves = 0 THEN Moves(w * h) ELSE LaterMoves(w * h))
    /\ \E out \in execute_move(games, shared, g, m, w, h) :
          /\ out.kind # "NULL" => Len(games) < MaxGames
          /\ pc' = IF out.kind = "crash" THEN "crashed"
                   ELSE IF out.kind = "lost" THEN "lost"
                   ELSE pc
          /\ games' = out.games
          /\ shared' = out.shared
          /\ w' = out.w
          /\ h' = out.h
          /\ ret' = IF out.kind = "state" THEN Len(out.games) ELSE 0
    /\ move' = m
    /\ from' = g
    /\ nmoves' = nmoves + 1
    /\ UNCHANGED <<policy, genVars, descVars, solveVars>>

MoveGrids == {<<2, 2>>, <<3, 1>>}

\* the descriptions games are made from: no clue, or the clue 1 in cell 0
MoveDescs(sz) == {[i \in 1 .. sz |-> Ch0], [i \in 1 .. sz |-> IF i = 1 THEN Ch0 + 1 ELSE Ch0]}

MoveInit ==
    /\ \E g \in MoveGrids : w = g[1] /\ h = g[2]
    /\ policy \in Policies
    /\ pc = "new_game"
    /\ desc \in MoveDescs(w * h)
    /\ verdict = validate_desc(w, h, desc)
    /\ board = NoArray
    /\ dsf = NoArray
    /\ randomize = NoArray
    /\ solver_board = NoArray
    /\ ni = 0
    /\ game_description = NoArray
    /\ games = NoArray
    /\ shared = NoArray
    /\ move = NoArray
    /\ from = 0
    /\ ret = 0
    /\ nmoves = 0
    /\ SolveIdle

MoveNext ==
    \/ NewGame
    \/ \E g \in 1 .. MaxGames : DupGame(g)
    \/ \E g \in 1 .. MaxGames : FreeGame(g)
    \/ \E g \in 1 .. MaxGames :
          \E m \in Moves(w * h) \cup LaterMoves(w * h) : ExecuteMove(g, m)

SpecMove == MoveInit /\ [][MoveNext]_vars

----------------------------------------------------------------------------
(* Properties of the generator and of the clue-set builder.                *)

\* C1: when new_game_desc has encoded the clue set it derived from the full board
\* of make_board, the solver run on that description (decoded as new_game decodes
\* it) reports success and its final board is the full board in every cell.
C1_SolverRecoversFullBoard ==
    pc = "ngd_encoded" =>
        LET r == solver(decode(game_description, w * h), w, h)
        IN  r.ret /\ r.board = board

\* a clue set of a two-dimensional grid from which at least two clues were removed
C1_Witness ==
    /\ pc = "ngd_encoded"
    /\ w >= 2 /\ h >= 2
    /\ Cardinality({i \in Cells(w * h) : solver_board[i] = EMPTY}) >= 2
    /\ solver(decode(game_description, w * h), w, h).board = board

\* C2: in the board make_board is about to return, two orthogonally adjacent cells
\* of different union-find sets belong to sets of different sizes.
C2_AdjacentRegionsDiffer ==
    pc = "mb_filled" =>
        \A i \in Cells(w * h) : \A k \in 0 .. 3 :
            (/\ ~OffGrid(w, h, i, k)
             /\ dsf_canonify(dsf, i) # dsf_canonify(dsf, Nbr(w, h, i, k)))
            => dsf_size(dsf, i) # dsf_size(dsf, Nbr(w, h, i, k))

\* a returned board of a two-dimensional grid with at least three regions
C2_Witness ==
    /\ pc = "mb_filled"
    /\ w >= 2 /\ h >= 2
    /\ Cardinality({dsf_canonify(dsf, i) : i \in Cells(w * h)}) >= 3

\* C3: in the board make_board returns, every cell holds the number of cells of the
\* maximal connected set of equal-valued cells it lies in.
C3_CellHoldsRegionSize ==
    pc = "mb_return" =>
        \A i \in Cells(w * h) :
            Cardinality(same_value_region(board, w, h, {i})) = board[i]

\* a returned board with a region of three cells that is not a straight line
C3_Witness ==
    /\ pc = "mb_return"
    /\ w >= 2 /\ h >= 2
    /\ board[0] = 3 /\ board[1] = 3 /\ board[w] = 3

\* C4: every value of the board make_board returns lies in 1 .. min(max(max(w,h),3),9);
\* so none exceeds 9, and none exceeds 3 on the 2x2 grid.
C4_ValuesWithinMaxsize ==
    pc = "mb_return" =>
        \A i \in Cells(w * h) :
            /\ board[i] >= 1
            /\ board[i] <= Min2(Max2(Max2(w, h), 3), 9)
            /\ board[i] <= 9
            /\ (w = 2 /\ h = 2) => board[i] <= 3

\* a returned 2x2 board with a region of exactly three cells
C4_Witness ==
    /\ pc = "mb_return"
    /\ w = 2 /\ h = 2
    /\ \E i \in Cells(4) : board[i] = 3

\* C5: the clue set new_game_desc encodes is minimal: blanking any one remaining
\* clue gives a board on which the solver fails.
C5_ClueSetMinimal ==
    pc = "ngd_encoded" =>
        \A c \in Cells(w * h) :
            solver_board[c] # EMPTY => ~solver(blanked(solver_board, {c}), w, h).ret

\* a clue set that keeps at least two clues and lost at least two
C5_Witness ==
    /\ pc = "ngd_encoded"
    /\ Cardinality({i \in Cells(w * h) : solver_board[i] # EMPTY}) >= 2
    /\ Cardinality({i \in Cells(w * h) : solver_board[i] = EMPTY}) >= 2

\* the sets of cells of the full board b whose blanking leaves a solvable board
solvable_blankings(b, gw, gh) ==
    {S \in SUBSET Cells(gw * gh) : solver(blanked(b, S), gw, gh).ret}

\* C6: more clues never hurt: if the solver succeeds on a generator board with the
\* cells of S blanked, it succeeds with any subset of S blanked.
C6_MoreCluesNeverHurt ==
    pc = "mb_return" =>
        LET ok == solvable_blankings(board, w, h)
        IN  \A S \in ok : \A T \in SUBSET S : T \in ok

\* a two-dimensional board that stays solvable with some two cells blanked, but not
\* with every set of cells blanked
C6_Witness ==
    /\ pc = "mb_return"
    /\ w >= 2
    /\ h >= 2
    /\ LET ok == solvable_blankings(board, w, h)
       IN  /\ \E S \in ok : Cardinality(S) >= 2
           /\ ok # SUBSET Cells(w * h)

\* C7: under fair shuffles make_board eventually returns a board, on every grid.
C7_MakeBoardReturns == <>(pc = "mb_return")

\* a restart: an attempt was abandoned and shuffle is about to be called again
C7_Witness ==
    /\ pc = "mb_shuffle"
    /\ board # dsf_init(w * h)
    /\ dsf = dsf_init(w * h)

\* C8: validate_desc accepts a description exactly when its length is w*h and every
\* character is a digit from '0' to '0' + min(max(max(w,h),3),9).
C8_ValidateDescIff ==
    pc = "vd_done" =>
        (verdict = "NULL" <=>
            /\ Len(desc) = w * h
            /\ \A i \in 1 .. Len(desc) :
                  /\ desc[i] >= Ch0
                  /\ desc[i] <= Ch0 + Min2(Max2(Max2(w, h), 3), 9))

\* a base-10 number: digits only
decimal(str) == Len(str) > 0 /\ \A i \in 1 .. Len(str) : isdigit(str[i])

RECURSIVE decimal_value(_)
decimal_value(str) ==
    IF str = <<>> THEN 0
    ELSE 10 * decimal_value(SubSeq(str, 1, Len(str) - 1)) + (str[Len(str)] - Ch0)

\* the edits <index>_<value> of two base-10 numbers
decimal_edit(str) ==
    \E k \in 1 .. Len(str) :
        /\ str[k] = 95
        /\ decimal(SubSeq(str, 1, k - 1))
        /\ decimal(SubSeq(str, k + 1, Len(str)))

RECURSIVE no_leading_zeros(_)
no_leading_zeros(str) ==
    IF Len(str) > 1 /\ str[1] = Ch0 THEN no_leading_zeros(Tail(str)) ELSE str

\* the base-10 number str is one of 0 .. n - 1, for an n of at most four digits
decimal_below(str, n) ==
    /\ Len(no_leading_zeros(str)) <= 4
    /\ decimal_value(no_leading_zeros(str)) < n

edit_index(str) == SubSeq(str, 1, (CHOOSE k \in 1 .. Len(str) : str[k] = 95) - 1)

edit_value(str) == SubSeq(str, (CHOOSE k \in 1 .. Len(str) : str[k] = 95) + 1, Len(str))

\* C9: execute_move returns no new state for an edit <index>_<value> whose index is
\* not in 0 .. w*h-1 or whose value is not in 0 .. 9, such as 0_99.
C9_OutOfRangeEditRejected ==
    (/\ move # <<>>
     /\ decimal_edit(move)
     /\ \/ ~decimal_below(edit_index(move), w * h)
        \/ ~decimal_below(edit_value(move), 10))
    => ret = 0 /\ pc = "play"

\* a number as the edit parser reads one: white space, a sign, and then decimal
\* digits, or 0 and octal digits, or 0x and hexadecimal digits
number(str) ==
    \E a \in 0 .. Len(str) :
        /\ \A i \in 1 .. a : isspace(str[i])
        /\ LET u == SubSeq(str, a + 1, Len(str))
               v == IF u # <<>> /\ (u[1] = 43 \/ u[1] = 45) THEN Tail(u) ELSE u
           IN  /\ v # <<>>
               /\ \/ v[1] # 48 /\ \A i \in 1 .. Len(v) : isdigit(v[i])
                  \/ v[1] = 48 /\ \A i \in 1 .. Len(v) : v[i] >= 48 /\ v[i] <= 55
                  \/ /\ Len(v) >= 3
                     /\ v[1] = 48
                     /\ v[2] = 120 \/ v[2] = 88
                     /\ \A i \in 3 .. Len(v) : digit_value(v[i]) < 16

\* a malformed edit: not a solution string, and not two numbers with a '_' between
\* them; so it starts with no number, or no '_' follows the first number, or no
\* number follows the '_', or something follows the second number
malformed(str) ==
    /\ At(str, 0) # 115
    /\ ~\E k \in 1 .. Len(str) :
          /\ str[k] = 95
          /\ number(SubSeq(str, 1, k - 1))
          /\ number(SubSeq(str, k + 1, Len(str)))

\* C10: execute_move on a malformed edit returns NULL and changes no game state's
\* board or flags, nor the shared clues or their reference count.
C10_MalformedEditChangesNothing ==
    [][(nmoves' = nmoves + 1 /\ malformed(move'))
          => (ret' = 0 /\ pc' = pc /\ games' = games /\ shared' = shared)]_vars

\* the edit "0_1x" was rejected as the second move, when the first move had made a
\* state and dup_game another, all three of them live
C10_Witness ==
    /\ pc = "play"
    /\ nmoves = 2
    /\ move = <<48, 95, 49, 120>>
    /\ ret = 0
    /\ Cardinality(Live) = 3
    /\ shared.refcnt = 3

----------------------------------------------------------------------------
(* Properties of the solver.                                               *)

\* C11: on the 7x7 example the solver reports success and its final board, and the
\* solution string it writes, are exactly the solved board of the comment.
C11_ExampleSolved ==
    (pc = "sv_return" /\ orig = decode(ExampleClues, 49)) =>
        /\ sv_ret
        /\ sv.board = decode(ExampleSolved, 49)
        /\ sv_solution = <<115>> \o ExampleSolved

\* the solver returned on the example after more than one pass
C11_Witness ==
    /\ pc = "sv_return"
    /\ orig = decode(ExampleClues, 49)
    /\ passes >= 2
    /\ sv.nempty = 0

\* the number of cells of the board b that hold EMPTY
empties(b) == Cardinality({c \in DOMAIN b : b[c] = EMPTY})

\* C13: the solver returns on every input board, after at most one pass more than
\* the input has empty cells.
C13_SolverTerminates ==
    /\ <>(pc = "sv_return")
    /\ [](passes <= empties(orig) + 1)

\* C14: between the visits of the solver, nempty is the number of cells of the
\* working board that hold EMPTY, and the solver reports success exactly when its
\* final board has no empty cell.
C14_NemptyCountsEmptyCells ==
    /\ pc \in {"sv_visit", "sv_return"} => sv.nempty = empties(sv.board)
    /\ pc = "sv_return" => (sv_ret <=> empties(sv.board) = 0)

\* a region of the board b has more cells than its value
over_full(b, gw, gh) ==
    \E c \in Cells(gw * gh) :
        b[c] # EMPTY /\ Cardinality(same_value_region(b, gw, gh, {c})) > b[c]

\* C15: on an input board without an over-full region, the working board
\* has no over-full region between the visits of the solver, nor at its return.
C15_NeverOverFull ==
    (pc \in {"sv_visit", "sv_return"} /\ ~over_full(orig, w, h))
        => ~over_full(sv.board, w, h)

\* C15 amended: on a clue board that has a solution, the working board has no
\* over-full region between the visits of the solver, nor at its return.
C15_NeverOverFullOnClues ==
    (pc \in {"sv_visit", "sv_return"} /\ <<w, h, orig>> \in SolvableClues)
        => ~over_full(sv.board, w, h)

\* the solver returned a two-dimensional clue board of which it filled three cells
\* or more
C15_Witness ==
    /\ pc = "sv_return"
    /\ <<w, h, orig>> \in SolvableClues
    /\ w >= 2 /\ h >= 2
    /\ empties(orig) >= empties(sv.board) + 3

\* C16: a cell of the working board that holds a number holds the same number
\* after every further step of the solver, and every clue of the input is in the
\* final board and in the solution string.
C16_FilledCellsNeverChange ==
    /\ [][pc = "sv_visit" =>
            \A c \in Cells(w * h) : sv.board[c] # EMPTY => sv'.board[c] = sv.board[c]]_vars
    /\ [](pc = "sv_return" =>
            \A c \in Cells(w * h) :
                orig[c] # EMPTY => /\ sv.board[c] = orig[c]
                                   /\ sv_solution[c + 2] = orig[c] + Ch0)

\* C17: when the solver is about to visit the empty cell si, marking si, counting
\* from a numbered neighbour idx and unmarking leaves every cell of the working
\* board with the value it held.
C17_FloodFillRestoresBoard ==
    (pc = "sv_visit" /\ si < w * h /\ sv.board[si] = EMPTY) =>
        \A k \in 0 .. 3 :
            (~OffGrid(w, h, si, k) /\ sv.board[Nbr(w, h, si, k)] # EMPTY) =>
                count([sv.board EXCEPT ![si] = -(w * h)], w, h, Nbr(w, h, si, k)).board
                    = sv.board

\* the neighbours of the cell i
nbrs(gw, gh, i) == {Nbr(gw, gh, i, k) : k \in {k \in 0 .. 3 : ~OffGrid(gw, gh, i, k)}}

\* the number of cells the region of value v around i would have with i holding v
would_be_size(b, gw, gh, i, v) ==
    Cardinality(same_value_region([b EXCEPT ![i] = v], gw, gh, {i}))

RECURSIVE open_area(_, _, _, _, _)
\* the cells reached from those in seen through cells that hold v or EMPTY, never
\* through the cell i
open_area(b, gw, gh, i, seen) ==
    LET v == b[CHOOSE c \in seen : b[c] # EMPTY]
        more == {c \in (Cells(gw * gh) \ seen) \ {i} :
                    /\ b[c] = v \/ b[c] = EMPTY
                    /\ nbrs(gw, gh, c) \cap seen # {}}
    IN  IF more = {} THEN seen ELSE open_area(b, gw, gh, i, seen \cup more)

\* the room left to the region of the numbered cell idx when the cell i is not its
room(b, gw, gh, i, idx) == Cardinality(open_area(b, gw, gh, i, {idx}))

\* no neighbour of the empty cell i makes the solver absorb i
no_absorption(b, gw, gh, i) ==
    \A idx \in nbrs(gw, gh, i) : b[idx] # EMPTY => room(b, gw, gh, i, idx) >= b[idx]

\* the solver, visiting si, made it a one and nothing else
dropped_one ==
    /\ sv'.board = [sv.board EXCEPT ![si] = 1]
    /\ sv'.nempty = sv.nempty - 1
    /\ sv'.learn

\* C18: an empty cell that no neighbour absorbs, that has no empty
\* neighbour and whose every neighbour holds 1 or a value v smaller than the would-be
\* size of v's region with the cell added, is made a one by the visit.
C18_DropInAOne ==
    [][(/\ pc = "sv_visit" /\ si < w * h /\ sv.board[si] = EMPTY
        /\ no_absorption(sv.board, w, h, si)
        /\ \A idx \in nbrs(w, h, si) :
              /\ sv.board[idx] # EMPTY
              /\ \/ sv.board[idx] = 1
                 \/ would_be_size(sv.board, w, h, si, sv.board[idx]) > sv.board[idx])
       => dropped_one]_vars

\* the solver, visiting si, gave it the value of the neighbour idx and merged the two
absorbed_into(idx) ==
    /\ sv'.board[si] = sv.board[idx]
    /\ dsf_canonify(sv'.dsf, si) = dsf_canonify(sv'.dsf, idx)
    /\ sv'.nempty = sv.nempty - 1
    /\ sv'.learn

\* C19: an empty cell with a neighbour idx of value v whose region, with
\* the cell counted as holding v, has fewer than v cells is given such a value and
\* merged into that region by the visit.
C19_Absorption ==
    [][(/\ pc = "sv_visit" /\ si < w * h /\ sv.board[si] = EMPTY
        /\ \E idx \in nbrs(w, h, si) :
              /\ sv.board[idx] # EMPTY
              /\ would_be_size(sv.board, w, h, si, sv.board[idx]) < sv.board[idx])
       => \E idx \in nbrs(w, h, si) :
              /\ sv.board[idx] # EMPTY
              /\ would_be_size(sv.board, w, h, si, sv.board[idx]) < sv.board[idx]
              /\ absorbed_into(idx)]_vars

\* the region of the numbered cell i: the cells joined to it by cells of its value
region_of(b, gw, gh, i) == same_value_region(b, gw, gh, {i})

\* the empty cells next to the region of i that the region can take without
\* outgrowing its value
candidates(b, gw, gh, i) ==
    {c \in Cells(gw * gh) :
        /\ b[c] = EMPTY
        /\ nbrs(gw, gh, c) \cap region_of(b, gw, gh, i) # {}
        /\ would_be_size(b, gw, gh, c, b[i]) <= b[i]}

\* the solver, visiting the region of si, gave the cell c its value and merged the
\* two, and nothing else
grown_by(c) ==
    /\ sv'.board = [sv.board EXCEPT ![c] = sv.board[si]]
    /\ dsf_canonify(sv'.dsf, c) = dsf_canonify(sv'.dsf, si)
    /\ sv'.nempty = sv.nempty - 1
    /\ sv'.learn

\* C20: when the solver visits a region with fewer cells than its value, at the
\* cell that stands for it, it absorbs an empty cell exactly when that cell is the
\* only candidate of the region; with no candidate or several the visit changes
\* nothing.
C20_RegionGrowth ==
    [][(/\ pc = "sv_visit" /\ si < w * h /\ sv.board[si] # EMPTY
        /\ dsf_canonify(sv.dsf, si) = si
        /\ Cardinality(region_of(sv.board, w, h, si)) < sv.board[si])
       => LET cand == candidates(sv.board, w, h, si)
          IN  IF Cardinality(cand) = 1
              THEN \A c \in cand : grown_by(c)
              ELSE sv' = sv]_vars

RECURSIVE ring_from(_, _, _)
\* the cells met by following connected[] from j, after those of seen
ring_from(conn, j, seen) ==
    IF j \in seen THEN seen ELSE ring_from(conn, conn[j], seen \cup {j})

\* following connected[] from any cell visits exactly the cells of its class, as
\* many as dsf_size says, and comes back to the cell
rings_match(s) ==
    \A c \in DOMAIN s.dsf :
        LET ring == ring_from(s.connected, c, {})
        IN  /\ ring = {y \in DOMAIN s.dsf :
                          dsf_canonify(s.dsf, y) = dsf_canonify(s.dsf, c)}
            /\ Cardinality(ring) = dsf_size(s.dsf, c)
            /\ \E y \in ring : s.connected[y] = c

\* C21: after the set-up of the solver and after every visit, the rings of
\* connected[] are the classes of the dsf; one more merge of any two adjacent cells
\* keeps it so, and a merge of two cells of one class changes nothing.
C21_RingsAreClasses ==
    pc \in {"sv_visit", "sv_return", "sv_abort"} =>
        /\ rings_match(sv)
        /\ \A a \in Cells(w * h) : \A b \in nbrs(w, h, a) :
              /\ rings_match(merge(sv, a, b))
              /\ dsf_canonify(sv.dsf, a) = dsf_canonify(sv.dsf, b) => merge(sv, a, b) = sv

\* a visit filled a cell and spliced it into a ring of three cells or more, on a
\* board that also has a ring of a single cell
C21_Witness ==
    /\ pc = "sv_visit"
    /\ si > 0
    /\ \E c \in Cells(w * h) :
          /\ orig[c] = EMPTY
          /\ sv.board[c] # EMPTY
          /\ Cardinality(ring_from(sv.connected, c, {})) >= 3
    /\ \E c \in Cells(w * h) : sv.connected[c] = c

\* C22: after the set-up of the solver and after every visit, two numbered cells of
\* the working board are in one class of the dsf exactly when a path of adjacent
\* cells of their value joins them, and every empty cell is a class of its own.
C22_PartitionMatchesBoard ==
    pc \in {"sv_visit", "sv_return"} =>
        \A a \in Cells(w * h) :
            IF sv.board[a] = EMPTY
            THEN dsf_size(sv.dsf, a) = 1
            ELSE {b \in Cells(w * h) :
                     /\ sv.board[b] # EMPTY
                     /\ dsf_canonify(sv.dsf, b) = dsf_canonify(sv.dsf, a)}
                 = region_of(sv.board, w, h, a)

----------------------------------------------------------------------------
(* Properties of the repair of make_board.                                 *)

\* the directions in which the cell c has a neighbour of another class of the same
\* size (same = TRUE) or of another size (same = FALSE)
other_classes(d, gw, gh, c, same) ==
    {k \in 0 .. 3 :
        /\ ~OffGrid(gw, gh, c, k)
        /\ dsf_canonify(d, Nbr(gw, gh, c, k)) # dsf_canonify(d, c)
        /\ (dsf_size(d, Nbr(gw, gh, c, k)) = dsf_size(d, c)) = same}

\* the scan has a conflict to report
in_conflict == \E c \in Cells(w * h) : other_classes(dsf, w, h, c, TRUE) # {}

\* the cell at which the scan stops: the first one, in the order of the shuffled
\* board, with a conflict
scan_cell ==
    LET first == CHOOSE i \in Cells(w * h) :
                     /\ other_classes(dsf, w, h, board[i], TRUE) # {}
                     /\ \A i2 \in 0 .. i - 1 :
                            other_classes(dsf, w, h, board[i2], TRUE) = {}
    IN  board[first]

\* the conflicting sets: a is the class of the scan cell, b that of its last
\* conflicting neighbour in the order of dx, dy
conflict_a == dsf_canonify(dsf, scan_cell)
conflict_b ==
    LET K == other_classes(dsf, w, h, scan_cell, TRUE)
    IN  dsf_canonify(dsf, Nbr(w, h, scan_cell, CHOOSE k \in K : \A k2 \in K : k2 <= k))

\* make_board merged the set a with the set t: it goes on with the merged dsf, or,
\* the merged set being too large, starts again from singletons and a new shuffle
repaired_with(t) ==
    LET d2 == dsf_merge(policy, dsf, conflict_a, t)
    IN  IF dsf_size(d2, conflict_a) > maxsize(w, h)
        THEN dsf' = dsf_init(w * h) /\ pc' = "mb_shuffle"
        ELSE dsf' = d2 /\ pc' = "mb_repair"

\* the sets other than a and b with a cell next to the scan cell or next to a cell
\* of b that touches the scan cell
thirds_of_either ==
    LET cb == {n \in nbrs(w, h, scan_cell) : dsf_canonify(dsf, n) = conflict_b}
        around == nbrs(w, h, scan_cell) \cup UNION {nbrs(w, h, n) : n \in cb}
    IN  {dsf_canonify(dsf, n) : n \in around} \ {conflict_a, conflict_b}

\* C23: on a conflict between a and b, make_board merges a with a third set that
\* has a cell next to either conflicting cell when there is one, and with b
\* otherwise; a merged set larger than maxsize ends the attempt.
C23_RepairPrefersThirdSet ==
    [][(pc = "mb_repair" /\ in_conflict)
       => IF thirds_of_either # {}
          THEN \E t \in thirds_of_either : repaired_with(t)
          ELSE repaired_with(conflict_b)]_vars

\* the set a is merged with: the class of the first neighbour of the scan cell, in
\* the order of dx, dy, whose class has another size than a, and b when there is none
repair_target ==
    LET K == other_classes(dsf, w, h, scan_cell, FALSE)
    IN  IF K = {} THEN conflict_b
        ELSE dsf_canonify(dsf, Nbr(w, h, scan_cell, CHOOSE k \in K : \A k2 \in K : k <= k2))

\* C23 amended: on a conflict between a and b, make_board merges a with the set of
\* the first neighbour of the scan cell whose set has another size than a when
\* there is one, and with b otherwise; a merged set larger than maxsize ends the
\* attempt.
C23_RepairPrefersUnequalNeighbour ==
    [][(pc = "mb_repair" /\ in_conflict) => repaired_with(repair_target)]_vars

\* after a repair, a conflict whose scan cell has no neighbour of another size
\* while a third set lies next to the conflicting cell of b
C23_Witness ==
    /\ pc = "mb_repair"
    /\ dsf # dsf_init(w * h)
    /\ in_conflict
    /\ other_classes(dsf, w, h, scan_cell, FALSE) = {}
    /\ thirds_of_either # {}

----------------------------------------------------------------------------
(* Properties of the game states.                                          *)

\* C12: while games are played, and when the program has aborted, the shared clue
\* set's refcnt is the number of live game states, and the clue set is allocated
\* exactly while some state is live.
C12_RefcntCountsLiveStates ==
    pc \in {"play", "crashed"} =>
        /\ shared.refcnt = Cardinality(Live)
        /\ shared.live <=> Live # {}

\* every cell of the board b holds the number of cells of its region
board_complete(b, gw, gh) ==
    \A c \in Cells(gw * gh) : Cardinality(region_of(b, gw, gh, c)) = b[c]

\* C24: the state execute_move returns is completed exactly when the state it was
\* made from was completed or every cell of its board holds the size of its
\* region; and a state made while every allocated state is completed is completed.
C24_CompletedIsSticky ==
    /\ [](pc = "play" /\ ret # 0 =>
            games[ret].completed =
                (games[from].completed \/ board_complete(games[ret].board, w, h)))
    /\ [][(pc = "play" /\ Len(games') > Len(games)
            /\ \A g \in Live : games[g].completed)
           => games'[Len(games')].completed]_vars

============================================================================
